---- MODULE Spec2Model ----
(***************************************************************************)
(* A model of the fsutils library (system_path.go, user_permissions.go):   *)
(* SystemPath, a snapshot of one os.Stat call, its mode-bit and permission *)
(* queries, and UserDetails, the process identity that the effective       *)
(* permission queries fetch on every call.                                 *)
(*                                                                         *)
(* An os.FileMode is a uint32 bit vector.  It is represented by the set of *)
(* the positions of its set bits (bit 0 is the least significant), so that *)
(* m & n is the intersection and m | n the union of the two sets; bit 31   *)
(* (os.ModeDir) does not fit TLC's integers otherwise.                      *)
(***************************************************************************)
EXTENDS Naturals, FiniteSets

VARIABLES
    disk,   \* what os.Stat(path) would answer now: the path on the file system
    proc,   \* the identity of the process: real and effective uid and gid
    pc,     \* "new" before SystemInit(path), "ready" once the SystemPath exists
    s,      \* the SystemPath {stat, err}
    ret     \* the last query made on s: its name, argument, locals and outcome

vars == <<disk, proc, pc, s, ret>>

-----------------------------------------------------------------------------
(* Bounds of the model *)

\* user and group ids of files and of processes are 0..MaxId
MaxId == 1
\* file sizes are 0..MaxSize
MaxSize == 1
\* HavePerm is asked about masks of at most MaxMaskBits permission bits
MaxMaskBits == 2

Ids == 0..MaxId
Sizes == 0..MaxSize

-----------------------------------------------------------------------------
(* os.FileMode as a bit vector *)

\* the bit vector of a number below 2^31
FileMode(n) == {i \in 0..30 : (n \div (2^i)) % 2 = 1}

\* m & n
BitAnd(m, n) == m \cap n

\* the permission constants of system_path.go
IRUSR == \o400
IREAD == \o400
IWUSR == \o200
IWRITE == \o200
IXUSR == \o100
IEXEC == \o100
IRGRP == \o040
IWGRP == \o020
IXGRP == \o010
IROTH == \o004
IWOTH == \o002
IXOTH == \o001

\* the os.Mode* bits the queries test (1 << 31 down to 1 << 19)
ModeDir == {31}
ModeAppend == {30}
ModeExclusive == {29}
ModeTemporary == {28}
ModeSymlink == {27}
ModeDevice == {26}
ModeNamedPipe == {25}
ModeSocket == {24}
ModeSetuid == {23}
ModeSetgid == {22}
ModeCharDevice == {21}
ModeSticky == {20}
ModeIrregular == {19}
\* os.ModeType and os.ModePerm, the masks of Mode().IsRegular() and Mode().Perm()
ModeType ==
    ModeDir \cup ModeSymlink \cup ModeNamedPipe \cup ModeSocket \cup ModeDevice
        \cup ModeCharDevice \cup ModeIrregular
ModePerm == FileMode(\o777)

-----------------------------------------------------------------------------
(* Values *)

\* the error values os.Stat leaves in s.err ("nil": no error)
StatErrors == {"ENOENT", "EACCES", "EIO", "ENOTDIR"}

\* s.stat: an os.FileInfo, or the nil interface value when os.Stat failed
NilStat == [nil |-> TRUE, mode |-> {}, uid |-> 0, gid |-> 0, size |-> 0]
FileInfo(mode, uid, gid, size) ==
    [nil |-> FALSE, mode |-> mode, uid |-> uid, gid |-> gid, size |-> size]

\* the outcome of a call: a return of (b), (n) or (n, err), or a run-time panic
RetBool(b) == [out |-> "return", b |-> b, n |-> 0, err |-> "nil"]
RetNum(n) == [out |-> "return", b |-> FALSE, n |-> n, err |-> "nil"]
RetNumErr(n, e) == [out |-> "return", b |-> FALSE, n |-> n, err |-> e]
Panic == [out |-> "panic", b |-> FALSE, n |-> 0, err |-> "nil"]

\* the zero UserDetails
ZeroUser == [uid |-> 0, gid |-> 0, euid |-> 0, egid |-> 0]

\* uint32(x) of the int a Getuid or Getgid returns: an id is a 32-bit unsigned
\* value, which the conversion leaves as it is
Uint32(x) == x

-----------------------------------------------------------------------------
(* user_permissions.go *)

\* InitUser: the four identity system calls, taken now
InitUser == [uid |-> proc.uid, gid |-> proc.gid, euid |-> proc.euid, egid |-> proc.egid]

UserGetUID(u) == u.uid
UserGetGID(u) == u.gid
GetEUid(u) == u.euid
GetEGid(u) == u.egid

-----------------------------------------------------------------------------
(* system_path.go: the queries, as functions of the SystemPath sp *)

\* os.Stat(path): the FileInfo and a nil error, or a nil FileInfo and the error
OsStat(d) ==
    IF d.res = "ok"
    THEN [stat |-> FileInfo(d.mode, d.uid, d.gid, d.size), err |-> "nil"]
    ELSE [stat |-> NilStat, err |-> d.res]

\* os.IsNotExist(err)
IsNotExist(err) == err = "ENOENT"

HaveError(sp) == sp.err # "nil"

Error(sp) == sp.err

\* StatMode, had the query asked the file system again instead of reading s.stat
StatMode_restat(sp) == disk.mode

\* s.stat.Mode(): a method call on the nil interface value panics
StatMode(sp) == sp.stat.mode

\* IsStat without its check of s.err
IsStat_noErrCheck(sp, istat) ==
    IF sp.stat.nil THEN Panic ELSE RetBool(BitAnd(StatMode(sp), istat) = istat)

IsStat(sp, istat) ==
    IF sp.err # "nil" THEN RetBool(FALSE)
    ELSE IF sp.stat.nil THEN Panic
    ELSE RetBool(BitAnd(StatMode(sp), istat) = istat)

IsDir(sp) == IsStat(sp, ModeDir)

\* IsExist as the negation of any failure
IsExist_anyError(sp) == RetBool(sp.err = "nil")

IsExist(sp) == RetBool(IsNotExist(sp.err) = FALSE)

IsSymlink(sp) == IsStat(sp, ModeSymlink)
IsAppend(sp) == IsStat(sp, ModeAppend)
IsExclusive(sp) == IsStat(sp, ModeExclusive)
IsTemporary(sp) == IsStat(sp, ModeTemporary)
IsDevice(sp) == IsStat(sp, ModeDevice)
IsNamedPipe(sp) == IsStat(sp, ModeNamedPipe)
IsSocket(sp) == IsStat(sp, ModeSocket)
IsCharDevice(sp) == IsStat(sp, ModeCharDevice)
HasSetUID(sp) == IsStat(sp, ModeSetuid)
HasSetGid(sp) == IsStat(sp, ModeSetgid)
IsSticky(sp) == IsStat(sp, ModeSticky)

\* IsRegularFile as "not a directory"
IsRegularFile_notDir(sp) ==
    IF sp.err # "nil" THEN RetBool(FALSE)
    ELSE IF sp.stat.nil THEN Panic
    ELSE RetBool(BitAnd(StatMode(sp), ModeDir) = {})

IsRegularFile(sp) ==
    IF sp.err # "nil" THEN RetBool(FALSE)
    ELSE IF sp.stat.nil THEN Panic
    ELSE RetBool(BitAnd(StatMode(sp), ModeType) = {})

\* HavePerm satisfied by any one of the requested bits
HavePerm_anyBit(sp, perm) ==
    IF sp.err # "nil" THEN RetBool(FALSE)
    ELSE IF sp.stat.nil THEN Panic
    ELSE RetBool(BitAnd(BitAnd(StatMode(sp), ModePerm), perm) # {})

HavePerm(sp, perm) ==
    IF sp.err # "nil" THEN RetBool(FALSE)
    ELSE IF sp.stat.nil THEN Panic
    ELSE RetBool(BitAnd(BitAnd(StatMode(sp), ModePerm), perm) = perm)

IsOwnerReadable(sp) == HavePerm(sp, FileMode(IRUSR))
IsOwnerWriteable(sp) == HavePerm(sp, FileMode(IWUSR))
IsOwnerExecutable(sp) == HavePerm(sp, FileMode(IXUSR))
IsGroupReadable(sp) == HavePerm(sp, FileMode(IRGRP))
IsGroupWriteable(sp) == HavePerm(sp, FileMode(IWGRP))
IsGroupExecutable(sp) == HavePerm(sp, FileMode(IXGRP))
IsOtherReadable(sp) == HavePerm(sp, FileMode(IROTH))
IsOtherWriteable(sp) == HavePerm(sp, FileMode(IWOTH))
IsOtherExecutable(sp) == HavePerm(sp, FileMode(IXOTH))

\* uid := s.stat.Sys().(*syscall.Stat_t).Uid panics on the nil s.stat; uid >= 0
\* holds of every uint32, so the error return is never taken
GetUID(sp) ==
    IF sp.stat.nil THEN Panic
    ELSE IF sp.stat.uid >= 0 THEN RetNumErr(sp.stat.uid, "nil")
    ELSE RetNumErr(0, "Invalid value for uid")

\* gid := s.stat.Sys().(*syscall.Stat_t).Uid: the Uid field, as the code reads it
GetGID(sp) ==
    IF sp.stat.nil THEN Panic
    ELSE IF sp.stat.uid >= 0 THEN RetNumErr(sp.stat.uid, "nil")
    ELSE RetNumErr(0, "Invalid value for gid")

\* the shape shared by IsReadable, IsWriteable and IsExecutible: a panic of
\* GetUID or GetGID ends the call, otherwise owner, then group, then other
Resolve(sp, user, owner, group, other) ==
    IF GetUID(sp).out = "panic" \/ GetGID(sp).out = "panic" THEN Panic
    ELSE IF GetUID(sp).n = Uint32(UserGetUID(user)) THEN owner
    ELSE IF GetGID(sp).n = Uint32(UserGetGID(user)) THEN group
    ELSE other

IsReadable(sp, user) ==
    Resolve(sp, user, IsOwnerReadable(sp), IsGroupReadable(sp), IsOtherReadable(sp))

IsWriteable(sp, user) ==
    Resolve(sp, user, IsOwnerWriteable(sp), IsGroupWriteable(sp), IsOtherWriteable(sp))

IsExecutible(sp, user) ==
    Resolve(sp, user, IsOwnerExecutable(sp), IsGroupExecutable(sp), IsOtherExecutable(sp))

\* Size answering 0 when there is no s.stat
Size_zeroOnNil(sp) == IF sp.stat.nil THEN RetNum(0) ELSE RetNum(sp.stat.size)

\* s.stat.Size() panics on the nil s.stat
Size(sp) == IF sp.stat.nil THEN Panic ELSE RetNum(sp.stat.size)

-----------------------------------------------------------------------------
(* Input sets *)

\* the file-type bits os.Stat reports: none (a regular file), a directory, a
\* symbolic link, a block device, a character device, a pipe, a socket, or a
\* file of a kind the platform does not know
TypeKinds ==
    { {}, ModeDir, ModeSymlink, ModeDevice, ModeDevice \cup ModeCharDevice,
      ModeNamedPipe, ModeSocket, ModeIrregular }

\* the attribute bits beside the type: any of setuid, setgid and sticky, or one
\* of append-only, exclusive and temporary
AttrSets ==
    (SUBSET (ModeSetuid \cup ModeSetgid \cup ModeSticky))
        \cup {ModeAppend, ModeExclusive, ModeTemporary}

\* every value of the nine permission bits
AllPerms == SUBSET ModePerm

\* the modes of the life-cycle specification
SmallModes ==
    { FileMode(\o644), FileMode(\o640), ModeDir \cup ModeSticky \cup FileMode(\o755) }

\* the modes of the specification of the mode-bit queries
PureModes ==
    {t \cup a \cup FileMode(\o644) : t \in TypeKinds, a \in AttrSets} \cup AllPerms

\* the masks HavePerm is asked about: the masks of few permission bits, and
\* masks with a bit outside the permission bits
AllMasks ==
    {m \in AllPerms : Cardinality(m) <= MaxMaskBits}
        \cup {ModeDir \cup FileMode(IRUSR), ModeSetuid \cup FileMode(IXUSR),
                   ModeSticky, ModeDir \cup ModePerm}
SmallMasks ==
    {FileMode(\o600), ModeDir \cup FileMode(IRUSR)}

\* what os.Stat can answer about a path
StatOk(modes, uids, gids, sizes) ==
    [res : {"ok"}, mode : modes, uid : uids, gid : gids, size : sizes]
StatFailed == [res : StatErrors, mode : {{}}, uid : {0}, gid : {0}, size : {0}]

\* an effective id is the real id, or 0 in a set-id-root program
Identities ==
    {u \in [uid : Ids, gid : Ids, euid : Ids, egid : Ids] :
        u.euid \in {u.uid, 0} /\ u.egid \in {u.gid, 0}}

\* no query made yet
NoCall == [op |-> "none", arg |-> {}, user |-> ZeroUser, res |-> RetBool(FALSE),
           again |-> FALSE]

-----------------------------------------------------------------------------
(* Construction *)

\* the zero SystemPath
ZeroPath == [stat |-> NilStat, err |-> "nil"]

SystemInit ==
    /\ pc = "new"
    /\ s' = OsStat(disk)
    /\ pc' = "ready"
    /\ UNCHANGED <<disk, proc, ret>>

-----------------------------------------------------------------------------
(* The queries: each is one call on s, whose outcome is left in ret *)

\* ret after the call op(arg) that fetched the identity user and ended in res;
\* again: the call repeats the query before it, on a path that os.Stat would
\* by now describe differently than s does
Returns(op, arg, user, res) ==
    /\ ret' = [op |-> op, arg |-> arg, user |-> user, res |-> res,
               again |-> (ret.op = op /\ ret.arg = arg /\ OsStat(disk) # s)]
    /\ UNCHANGED <<disk, proc, pc, s>>

CallHaveError == pc = "ready" /\ Returns("HaveError", {}, ZeroUser, RetBool(HaveError(s)))
CallError == pc = "ready" /\ Returns("Error", {}, ZeroUser, RetNumErr(0, Error(s)))
CallIsDir == pc = "ready" /\ Returns("IsDir", {}, ZeroUser, IsDir(s))
CallIsExist == pc = "ready" /\ Returns("IsExist", {}, ZeroUser, IsExist(s))
CallIsSymlink == pc = "ready" /\ Returns("IsSymlink", {}, ZeroUser, IsSymlink(s))
CallIsAppend == pc = "ready" /\ Returns("IsAppend", {}, ZeroUser, IsAppend(s))
CallIsExclusive == pc = "ready" /\ Returns("IsExclusive", {}, ZeroUser, IsExclusive(s))
CallIsTemporary == pc = "ready" /\ Returns("IsTemporary", {}, ZeroUser, IsTemporary(s))
CallIsDevice == pc = "ready" /\ Returns("IsDevice", {}, ZeroUser, IsDevice(s))
CallIsNamedPipe == pc = "ready" /\ Returns("IsNamedPipe", {}, ZeroUser, IsNamedPipe(s))
CallIsSocket == pc = "ready" /\ Returns("IsSocket", {}, ZeroUser, IsSocket(s))
CallIsCharDevice == pc = "ready" /\ Returns("IsCharDevice", {}, ZeroUser, IsCharDevice(s))
CallHasSetUID == pc = "ready" /\ Returns("HasSetUID", {}, ZeroUser, HasSetUID(s))
CallHasSetGid == pc = "ready" /\ Returns("HasSetGid", {}, ZeroUser, HasSetGid(s))
CallIsSticky == pc = "ready" /\ Returns("IsSticky", {}, ZeroUser, IsSticky(s))
CallIsRegularFile == pc = "ready" /\ Returns("IsRegularFile", {}, ZeroUser, IsRegularFile(s))
CallHavePerm(masks) == pc = "ready" /\ \E perm \in masks : Returns("HavePerm", perm, ZeroUser, HavePerm(s, perm))
CallIsOwnerReadable == pc = "ready" /\ Returns("IsOwnerReadable", {}, ZeroUser, IsOwnerReadable(s))
CallIsOwnerWriteable == pc = "ready" /\ Returns("IsOwnerWriteable", {}, ZeroUser, IsOwnerWriteable(s))
CallIsOwnerExecutable == pc = "ready" /\ Returns("IsOwnerExecutable", {}, ZeroUser, IsOwnerExecutable(s))
CallIsGroupReadable == pc = "ready" /\ Returns("IsGroupReadable", {}, ZeroUser, IsGroupReadable(s))
CallIsGroupWriteable == pc = "ready" /\ Returns("IsGroupWriteable", {}, ZeroUser, IsGroupWriteable(s))
CallIsGroupExecutable == pc = "ready" /\ Returns("IsGroupExecutable", {}, ZeroUser, IsGroupExecutable(s))
CallIsOtherReadable == pc = "ready" /\ Returns("IsOtherReadable", {}, ZeroUser, IsOtherReadable(s))
CallIsOtherWriteable == pc = "ready" /\ Returns("IsOtherWriteable", {}, ZeroUser, IsOtherWriteable(s))
CallIsOtherExecutable == pc = "ready" /\ Returns("IsOtherExecutable", {}, ZeroUser, IsOtherExecutable(s))
CallGetUID == pc = "ready" /\ Returns("GetUID", {}, ZeroUser, GetUID(s))
CallGetGID == pc = "ready" /\ Returns("GetGID", {}, ZeroUser, GetGID(s))
CallIsReadable == pc = "ready" /\ Returns("IsReadable", {}, InitUser, IsReadable(s, InitUser))
CallIsWriteable == pc = "ready" /\ Returns("IsWriteable", {}, InitUser, IsWriteable(s, InitUser))
CallIsExecutible == pc = "ready" /\ Returns("IsExecutible", {}, InitUser, IsExecutible(s, InitUser))
CallSize == pc = "ready" /\ Returns("Size", {}, ZeroUser, Size(s))

-----------------------------------------------------------------------------
(* The environment: the path and the process identity change under the program *)

\* the path is removed
Unlink ==
    /\ disk.res # "ENOENT"
    /\ disk' = [res |-> "ENOENT", mode |-> {}, uid |-> 0, gid |-> 0, size |-> 0]
    /\ UNCHANGED <<proc, pc, s, ret>>

\* the permission bits of the path are cleared
Chmod ==
    /\ disk.res = "ok"
    /\ BitAnd(disk.mode, ModePerm) # {}
    /\ disk' = [disk EXCEPT !.mode = disk.mode \ ModePerm]
    /\ UNCHANGED <<proc, pc, s, ret>>

\* setuid(u) of a privileged process: the real and the effective uid
Setuid ==
    /\ \E u \in Ids : u # proc.uid /\ proc' = [proc EXCEPT !.uid = u, !.euid = u]
    /\ UNCHANGED <<disk, pc, s, ret>>

\* setgid(g) of a privileged process: the real and the effective gid
Setgid ==
    /\ \E g \in Ids : g # proc.gid /\ proc' = [proc EXCEPT !.gid = g, !.egid = g]
    /\ UNCHANGED <<disk, pc, s, ret>>

-----------------------------------------------------------------------------
(* Specifications *)

Queries ==
    \/ CallHaveError \/ CallError \/ CallIsExist \/ CallSize
    \/ CallGetUID \/ CallGetGID
    \/ CallIsReadable \/ CallIsWriteable \/ CallIsExecutible

ModeQueries ==
    \/ CallIsDir \/ CallIsSymlink \/ CallIsAppend \/ CallIsExclusive
    \/ CallIsTemporary \/ CallIsDevice \/ CallIsNamedPipe \/ CallIsSocket
    \/ CallIsCharDevice \/ CallHasSetUID \/ CallHasSetGid \/ CallIsSticky
    \/ CallIsRegularFile
    \/ CallIsOwnerReadable \/ CallIsOwnerWriteable \/ CallIsOwnerExecutable
    \/ CallIsGroupReadable \/ CallIsGroupWriteable \/ CallIsGroupExecutable
    \/ CallIsOtherReadable \/ CallIsOtherWriteable \/ CallIsOtherExecutable

Environment == Unlink \/ Chmod \/ Setuid \/ Setgid

\* the life cycle of one SystemPath in a changing environment
Init ==
    /\ disk \in StatOk(SmallModes, Ids, Ids, Sizes) \cup StatFailed
    /\ proc \in Identities
    /\ pc = "new"
    /\ s = ZeroPath
    /\ ret = NoCall

Next ==
    \/ SystemInit
    \/ Queries
    \/ ModeQueries
    \/ CallHavePerm(SmallMasks)
    \/ Environment

Spec == Init /\ [][Next]_vars

\* the mode-bit queries over every mode and every mask
ModeInit ==
    /\ disk \in StatOk(PureModes, {0}, {0}, {0})
    /\ proc = ZeroUser
    /\ pc = "new"
    /\ s = ZeroPath
    /\ ret = NoCall

ModeNext ==
    \/ SystemInit
    \/ ModeQueries
    \/ CallHavePerm(AllMasks)

ModeSpec == ModeInit /\ [][ModeNext]_vars

-----------------------------------------------------------------------------
(* Properties *)

EffectiveOps == {"IsReadable", "IsWriteable", "IsExecutible"}
TypeOps ==
    {"IsDir", "IsSymlink", "IsRegularFile", "IsDevice", "IsNamedPipe", "IsSocket",
     "IsCharDevice", "IsAppend", "IsExclusive", "IsTemporary", "HasSetUID",
     "HasSetGid", "IsSticky"}
BitOps ==
    {"IsOwnerReadable", "IsOwnerWriteable", "IsOwnerExecutable",
     "IsGroupReadable", "IsGroupWriteable", "IsGroupExecutable",
     "IsOtherReadable", "IsOtherWriteable", "IsOtherExecutable"}

\* the permission bit that owner -> group -> other precedence selects for the
\* access op, from the owner and group recorded in the status data and the real
\* ids of user
SelectedBit(op, st, user) ==
    LET class == IF st.uid = user.uid THEN "owner"
                 ELSE IF st.gid = user.gid THEN "group" ELSE "other"
        bit == [IsReadable |-> [owner |-> IRUSR, group |-> IRGRP, other |-> IROTH],
                IsWriteable |-> [owner |-> IWUSR, group |-> IWGRP, other |-> IWOTH],
                IsExecutible |-> [owner |-> IXUSR, group |-> IXGRP, other |-> IXOTH]]
    IN FileMode(bit[op][class])

\* C1: on a successfully constructed SystemPath, IsReadable, IsWriteable and
\* IsExecutible return the owner-class bit when the file's uid is the process's
\* real uid, else the group-class bit when the file's gid is the process's real
\* gid, else the other-class bit; the effective ids play no part.
C1_EffectivePermission ==
    (ret.op \in EffectiveOps /\ ~HaveError(s))
        => ret.res = RetBool(SelectedBit(ret.op, s.stat, ret.user) \subseteq s.stat.mode)

\* C2: on a successfully constructed SystemPath, GetUID returns the uid of the
\* status data and GetGID returns its gid, each with a nil error.
C2_OwnerIds ==
    ~HaveError(s) =>
        /\ ret.op = "GetUID" => ret.res = RetNumErr(s.stat.uid, "nil")
        /\ ret.op = "GetGID" => ret.res = RetNumErr(s.stat.gid, "nil")

\* C3: after a failed construction, IsReadable, IsWriteable and IsExecutible
\* each return false, without a panic.
C3_EffectiveFalseOnError ==
    (ret.op \in EffectiveOps /\ HaveError(s)) => ret.res = RetBool(FALSE)

\* C4: after a failed construction, every type and attribute predicate,
\* HavePerm of every mask, and each of the nine permission-bit predicates
\* returns false, without a panic.
C4_PredicatesFalseOnError ==
    (ret.op \in TypeOps \cup BitOps \cup {"HavePerm"} /\ HaveError(s))
        => ret.res = RetBool(FALSE)

\* a type predicate and HavePerm were asked after os.Stat was denied
C4_Witness ==
    /\ s.err = "EACCES"
    /\ ret.op \in {"IsDir", "HavePerm"}
    /\ ret.res = RetBool(FALSE)

\* C5: after a failed construction, GetUID and GetGID return, with a non-nil
\* error: they neither panic nor return an id with a nil error.
C5_OwnerIdsFailOnError ==
    (ret.op \in {"GetUID", "GetGID"} /\ HaveError(s))
        => (ret.res.out = "return" /\ ret.res.err # "nil")

\* C6: IsExist returns false exactly when the construction failure is a
\* not-found failure: true on success and on every other failure.
C6_ExistIffNotNotFound ==
    ret.op = "IsExist" =>
        /\ ret.res.out = "return"
        /\ ret.res.b = (s.err # "ENOENT")
        /\ ~HaveError(s) => ret.res.b

\* IsExist answered true for a path whose os.Stat failed otherwise than not-found
C6_Witness ==
    /\ ret.op = "IsExist"
    /\ s.err \in {"EACCES", "EIO", "ENOTDIR"}
    /\ ret.res = RetBool(TRUE)

\* C7: on a successfully constructed SystemPath, HavePerm(mask) is true exactly
\* when every bit of mask is one of the nine permission bits and is set in the
\* mode.
C7_HavePermAllBits ==
    (ret.op = "HavePerm" /\ ~HaveError(s))
        => ret.res = RetBool(\A i \in ret.arg : i \in 0..8 /\ i \in s.stat.mode)

\* HavePerm answered false for a mask of two bits, one of them missing
C7_Witness ==
    /\ ret.op = "HavePerm"
    /\ ~HaveError(s)
    /\ Cardinality(ret.arg) = 2
    /\ Cardinality(ret.arg \ s.stat.mode) = 1
    /\ ret.res = RetBool(FALSE)

\* C8 as stated: a query that repeats the query before it (same name, same
\* argument) has the same outcome, whatever the environment did in between.
C8_Idempotent ==
    [][(ret.op # "none" /\ ret'.op = ret.op /\ ret'.arg = ret.arg)
            => ret'.res = ret.res]_vars

\* C8, amended: a query that repeats the query before it has the same outcome
\* whatever happened to the path in between; for IsReadable, IsWriteable and
\* IsExecutible, which fetch the process identity on every call, this holds when
\* the real uid and gid they fetched are the same in both calls.
C8_IdempotentSameIdentity ==
    [][(/\ ret.op # "none" /\ ret'.op = ret.op /\ ret'.arg = ret.arg
        /\ ret'.user.uid = ret.user.uid /\ ret'.user.gid = ret.user.gid)
            => ret'.res = ret.res]_vars

\* a permission query was repeated after the path was removed, and still
\* answered from the status data taken at construction
C8_Witness ==
    /\ ret.again
    /\ ret.op \in {"IsReadable", "IsOwnerReadable"}
    /\ disk.res = "ENOENT"
    /\ ret.res = RetBool(TRUE)

\* the file-type predicates that answer true on sp
TrueKinds(sp) ==
    {k \in {"IsDir", "IsRegularFile", "IsSymlink", "IsDevice", "IsNamedPipe", "IsSocket"} :
        [IsDir |-> IsDir(sp), IsRegularFile |-> IsRegularFile(sp),
         IsSymlink |-> IsSymlink(sp), IsDevice |-> IsDevice(sp),
         IsNamedPipe |-> IsNamedPipe(sp), IsSocket |-> IsSocket(sp)][k] = RetBool(TRUE)}

\* C9: on a successfully constructed SystemPath whose mode is one os.Stat
\* reports, at most one of IsDir, IsRegularFile, IsSymlink, IsDevice,
\* IsNamedPipe and IsSocket is true: the one of the file's type for a
\* directory, a regular file, a symbolic link, a device (block or character), a
\* pipe and a socket, and none for a file of another type.
C9_OneFileType ==
    (pc = "ready" /\ ~HaveError(s) /\ BitAnd(s.stat.mode, ModeType) \in TypeKinds) =>
        LET t == BitAnd(s.stat.mode, ModeType) IN
        /\ Cardinality(TrueKinds(s)) <= 1
        /\ t = {} => TrueKinds(s) = {"IsRegularFile"}
        /\ t = ModeDir => TrueKinds(s) = {"IsDir"}
        /\ t = ModeSymlink => TrueKinds(s) = {"IsSymlink"}
        /\ ModeDevice \subseteq t => TrueKinds(s) = {"IsDevice"}
        /\ t = ModeNamedPipe => TrueKinds(s) = {"IsNamedPipe"}
        /\ t = ModeSocket => TrueKinds(s) = {"IsSocket"}
        /\ t = ModeIrregular => TrueKinds(s) = {}
        /\ ret.op \in {"IsDir", "IsRegularFile", "IsSymlink", "IsDevice", "IsNamedPipe",
                       "IsSocket"}
              => ret.res = RetBool(ret.op \in TrueKinds(s))

\* IsDevice answered true for a character device, which carries two type bits
C9_Witness ==
    /\ ret.op = "IsDevice"
    /\ BitAnd(s.stat.mode, ModeType) = ModeDevice \cup ModeCharDevice
    /\ TrueKinds(s) = {"IsDevice"}
    /\ ret.res = RetBool(TRUE)

\* C10: Size returns the size of the status data as it is on a successfully
\* constructed SystemPath, and ends in a panic, returning no integer, after a
\* failed construction.
C10_SizeOrPanic ==
    ret.op = "Size" =>
        IF HaveError(s) THEN ret.res.out = "panic" ELSE ret.res = RetNum(s.stat.size)

\* Size was called after a failed construction and panicked
C10_Witness ==
    /\ ret.op = "Size"
    /\ HaveError(s)
    /\ ret.res = Panic

====
